---- MODULE Spec2Model ----
(***************************************************************************)
(* Model of streamlit_app.py: the break-even loadout calculator.           *)
(*                                                                         *)
(* break_even_loss and monte_carlo_sim are modelled from their bodies, the *)
(* "if run_button:" branch of the script as the sequence of steps the      *)
(* interpreter takes through it.  Python numbers are modelled as exact     *)
(* rationals <<n, d>> in lowest terms with d > 0, so the arithmetic of the *)
(* model is the arithmetic of the formulas without binary64 rounding.      *)
(* numpy's ambient generator is modelled as a state that yields one draw   *)
(* per call of np.random.random() and moves on.                            *)
(***************************************************************************)
EXTENDS Integers, Sequences, FiniteSets, TLC

VARIABLES
    pc,           \* position of the interpreter
    message,      \* the st.info / st.error / st.success box shown
    total_raids, extraction_rate_percent, total_earned_millions,  \* widget values
    p, total_earned, wins, avg_win, L_BE, abs_L_BE, rr_be,        \* script variables
    eq,           \* the paths returned so far: eq_bad, eq_break, eq_good
    calls,        \* log of the calls into the core, in order
    frame,        \* the running monte_carlo_sim call: its arguments and locals
    draws,        \* the uniform draws the running call has consumed
    args,         \* the arguments a direct caller of the core passes
    returned,     \* what the calls of a direct caller returned, in order
    rng,          \* state of numpy's global generator
    seed          \* the generator state a test injects before each run

vars == <<pc, message, total_raids, extraction_rate_percent, total_earned_millions,
          p, total_earned, wins, avg_win, L_BE, abs_L_BE, rr_be,
          eq, calls, frame, draws, args, returned, rng, seed>>

appVars == <<message, total_raids, extraction_rate_percent, total_earned_millions,
             p, total_earned, wins, avg_win, L_BE, abs_L_BE, rr_be, eq>>

-----------------------------------------------------------------------------
(* Bounds of the model *)

\* period of the modelled generator: a generator state is TapeLen draws
TapeLen == 3

\* largest num_raids the test harness passes to monte_carlo_sim
MaxRaids == 3

-----------------------------------------------------------------------------
(* Numbers: Python's arithmetic on exact rationals *)

Abs(n) == IF n < 0 THEN -n ELSE n

RECURSIVE GCD(_, _)
GCD(a, b) == IF b = 0 THEN a ELSE GCD(b, a % b)

\* the rational n/d in lowest terms, d # 0
Rat(n, d) ==
    LET g == GCD(Abs(n), Abs(d))
        s == IF d < 0 THEN -1 ELSE 1
    IN  <<(s * n) \div g, (s * d) \div g>>

Zero == <<0, 1>>
One  == <<1, 1>>

RatAdd(a, b) ==
    \* over the least common denominator, so that intermediate products stay small
    LET g == GCD(a[2], b[2])
    IN  Rat(a[1] * (b[2] \div g) + b[1] * (a[2] \div g), a[2] * (b[2] \div g))
RatNeg(a)    == <<-a[1], a[2]>>
RatSub(a, b) == RatAdd(a, RatNeg(b))
RatMul(a, b) ==
    \* cross-cancel first, so that intermediate products stay small
    LET g1 == GCD(Abs(a[1]), b[2])
        g2 == GCD(Abs(b[1]), a[2])
    IN  Rat((a[1] \div g1) * (b[1] \div g2), (a[2] \div g2) * (b[2] \div g1))
RatInv(a)    == Rat(a[2], a[1])
RatDiv(a, b) == RatMul(a, RatInv(b))
RatAbs(a)    == <<Abs(a[1]), a[2]>>
RatLt(a, b)  == a[1] * b[2] < b[1] * a[2]
RatLe(a, b)  == a[1] * b[2] <= b[1] * a[2]

\* a division by zero raises ZeroDivisionError instead of returning a number;
\* a name not yet assigned holds None.  Neither is a rational (d = 0).
ZeroDivisionError == <<1, 0>>
None == <<0, 0>>

IsNumber(x) == x[2] > 0

-----------------------------------------------------------------------------
(* Core math *)

\* a break-even loss without its sign
break_even_loss_unsigned(win_rate, avgwin) ==
    IF RatSub(One, win_rate) = Zero
    THEN ZeroDivisionError
    ELSE RatDiv(RatMul(win_rate, avgwin), RatSub(One, win_rate))

\* a break-even loss divided by the win rate instead of the loss rate
break_even_loss_by_win_rate(win_rate, avgwin) ==
    IF win_rate = Zero
    THEN ZeroDivisionError
    ELSE RatDiv(RatNeg(RatMul(win_rate, avgwin)), win_rate)

\* def break_even_loss(win_rate, avg_win): -(win_rate * avg_win) / (1 - win_rate)
break_even_loss(win_rate, avgwin) ==
    IF RatSub(One, win_rate) = Zero
    THEN ZeroDivisionError
    ELSE RatDiv(RatNeg(RatMul(win_rate, avgwin)), RatSub(One, win_rate))

\* np.random.random(): the draw the generator state g yields, a value of [0, 1)
random(g) == g[1]

\* the generator state after that draw
advance(g) == Tail(g) \o <<g[1]>>

\* the values a draw takes in the model
DrawValues == {<<1, 4>>, <<1, 2>>}

\* the generator states: every sequence of TapeLen draws
Seeds == [1..TapeLen -> DrawValues]

\* equity[-1]
Last(s) == s[Len(s)]

\* num_raids=1000, the default of monte_carlo_sim
DefaultNumRaids == 1000

NoFrame == [win_rate |-> None, avg_win |-> None, avg_loss |-> None,
            num_raids |-> 0, equity |-> <<>>, i |-> 0, ret |-> "none"]

\* a list shared between calls, as a mutable default argument would be
NewFrame_shared(win_rate, avgwin, avgloss, num_raids, ret) ==
    [win_rate |-> win_rate, avg_win |-> avgwin, avg_loss |-> avgloss,
     num_raids |-> num_raids,
     equity |-> IF ret = "test" /\ returned # <<>> THEN Last(returned) ELSE <<Zero>>,
     i |-> 0, ret |-> ret]

\* entering monte_carlo_sim: the arguments are bound and equity = [0]
NewFrame(win_rate, avgwin, avgloss, num_raids, ret) ==
    [win_rate |-> win_rate, avg_win |-> avgwin, avg_loss |-> avgloss,
     num_raids |-> num_raids, equity |-> <<Zero>>, i |-> 0, ret |-> ret]

\* a comparison that counts a draw equal to win_rate as a win
IsWin_inclusive(draw, win_rate) == RatLe(draw, win_rate)

\* the comparison of the loop body: np.random.random() < win_rate
IsWin(draw, win_rate) == RatLt(draw, win_rate)

\* the value one iteration appends
Appended(f, draw) ==
    IF IsWin(draw, f.win_rate)
    THEN RatAdd(Last(f.equity), f.avg_win)
    ELSE RatAdd(Last(f.equity), f.avg_loss)

\* a loop that stops one iteration early
range_short(num_raids) == num_raids - 1

\* range(num_raids): the number of iterations of the loop
range(num_raids) == num_raids

\* one iteration of "for _ in range(num_raids)"
SimStep ==
    /\ pc = "sim"
    /\ frame.i < range(frame.num_raids)
    /\ frame' = [frame EXCEPT !.equity = Append(@, Appended(frame, random(rng))),
                              !.i = @ + 1]
    /\ draws' = Append(draws, random(rng))
    /\ rng' = advance(rng)
    /\ UNCHANGED <<pc, appVars, calls, args, returned, seed>>

\* "return equity": the loop is exhausted and the caller receives the list
SimReturn ==
    /\ pc = "sim"
    /\ frame.i >= range(frame.num_raids)
    /\ IF frame.ret = "test"
       THEN /\ returned' = Append(returned, frame.equity)
            /\ pc' = "test"
            /\ eq' = eq
       ELSE /\ eq' = Append(eq, frame.equity)
            /\ pc' = IF Len(eq) = 2 THEN "plot" ELSE "simulate"
            /\ returned' = returned
    /\ UNCHANGED <<message, total_raids, extraction_rate_percent,
                   total_earned_millions, p, total_earned, wins, avg_win, L_BE,
                   abs_L_BE, rr_be, calls, frame, draws, args, rng, seed>>

-----------------------------------------------------------------------------
(* The script: widgets and the "if run_button:" branch *)

\* what a call into the core leaves in the log
Call(fn, win_rate, avgwin, avgloss, num_raids) ==
    [fn |-> fn, win_rate |-> win_rate, avg_win |-> avgwin, avg_loss |-> avgloss,
     num_raids |-> num_raids]

\* st.number_input("Total Raids", min_value=1.0, step=1.0)
TotalRaidsMin == One

\* st.number_input("Extraction Rate %", min_value=0.1, max_value=99.9, step=0.1)
ExtractionRateMin == <<1, 10>>
ExtractionRateMax_100 == <<100, 1>>
ExtractionRateMax == <<999, 10>>

\* st.number_input("Total Earned (millions of koen)", min_value=0.01, step=0.1)
TotalEarnedMin == <<1, 100>>

\* what a user may type into the three boxes
TypedRaids  == {Zero, <<1000, 1>>, <<2000, 1>>}
TypedRate   == {Zero, <<1, 10>>, <<50, 1>>, <<999, 10>>, <<100, 1>>}
TypedEarned == {Zero, <<1, 100>>}

\* what the widgets return: a number_input keeps its value within its bounds
TotalRaidsValues == {v \in TypedRaids : RatLe(TotalRaidsMin, v)}
ExtractionRateValues ==
    {v \in TypedRate : RatLe(ExtractionRateMin, v) /\ RatLe(v, ExtractionRateMax)}
TotalEarnedValues == {v \in TypedEarned : RatLe(TotalEarnedMin, v)}

Hundred == <<100, 1>>
Million == <<1000000, 1>>

\* the script up to the test of run_button: nothing is computed yet
Blank ==
    /\ message = "info"
    /\ total_raids = None /\ extraction_rate_percent = None
    /\ total_earned_millions = None
    /\ p = None /\ total_earned = None /\ wins = None /\ avg_win = None
    /\ L_BE = None /\ abs_L_BE = None /\ rr_be = None
    /\ eq = <<>> /\ calls = <<>> /\ frame = NoFrame /\ draws = <<>>

\* a click on "Calculate & Simulate": lines 84-91
RunButton ==
    /\ pc = "idle"
    /\ \E r \in TotalRaidsValues, e \in ExtractionRateValues, m \in TotalEarnedValues :
        LET p_ == RatDiv(e, Hundred)
            total_earned_ == RatMul(m, Million)
            wins_ == RatMul(r, p_)
        IN  /\ total_raids' = r
            /\ extraction_rate_percent' = e
            /\ total_earned_millions' = m
            /\ p' = p_
            /\ total_earned' = total_earned_
            /\ wins' = wins_
            \* if wins <= 0: st.error(...), else: avg_win = total_earned / wins
            /\ message' = IF RatLe(wins_, Zero) THEN "error" ELSE message
            /\ avg_win' = IF RatLe(wins_, Zero) THEN avg_win
                                                ELSE RatDiv(total_earned_, wins_)
            /\ pc' = IF RatLe(wins_, Zero) THEN "stop" ELSE "break_even"
    /\ UNCHANGED <<L_BE, abs_L_BE, rr_be, eq, calls, frame, draws, args, returned,
                   rng, seed>>

\* lines 92-94: L_BE, abs_L_BE, rr_be
CalcBreakEven ==
    /\ pc = "break_even"
    /\ calls' = Append(calls, Call("break_even_loss", p, avg_win, None, 0))
    /\ LET L == break_even_loss(p, avg_win)
       IN  IF L = ZeroDivisionError \/ L = Zero
           THEN \* an uncaught ZeroDivisionError (line 11, or line 94 when
                \* abs_L_BE is 0) ends the script run
                /\ L_BE' = L
                /\ message' = "exception"
                /\ pc' = "stop"
                /\ UNCHANGED <<abs_L_BE, rr_be>>
           ELSE /\ L_BE' = L
                /\ abs_L_BE' = RatAbs(L)
                /\ rr_be' = RatDiv(avg_win, RatAbs(L))
                /\ message' = message
                /\ pc' = "simulate"
    /\ UNCHANGED <<total_raids, extraction_rate_percent, total_earned_millions,
                   p, total_earned, wins, avg_win, eq, frame, draws, args, returned,
                   rng, seed>>

\* the loadouts in the opposite order
Loadouts_reversed(abs) == <<RatMul(abs, <<1, 2>>), abs, RatMul(abs, <<3, 2>>)>>

\* lines 146-148: the three loadouts, in the order they are simulated
Loadouts(abs) == <<RatMul(abs, <<3, 2>>), abs, RatMul(abs, <<1, 2>>)>>

\* losses that keep the sign of the loadout values
Losses_positive(abs) == [k \in 1..3 |-> Loadouts(abs)[k]]

\* lines 150-152: loss_bad, loss_break, loss_good
Losses(abs) == [k \in 1..3 |-> RatNeg(Loadouts(abs)[k])]

EqNames == <<"eq_bad", "eq_break", "eq_good">>

\* lines 154-156: the next call of monte_carlo_sim(p, avg_win, loss)
CallSim ==
    /\ pc = "simulate"
    /\ LET k == Len(eq) + 1
           loss == Losses(abs_L_BE)[k]
       IN  /\ frame' = NewFrame(p, avg_win, loss, DefaultNumRaids, EqNames[k])
           /\ calls' = Append(calls, Call("monte_carlo_sim", p, avg_win, loss,
                                          DefaultNumRaids))
    /\ draws' = <<>>
    /\ pc' = "sim"
    /\ UNCHANGED <<appVars, args, returned, rng, seed>>

\* lines 158-188: the chart is drawn from the three paths, then st.success
Done ==
    /\ pc = "plot"
    /\ message' = "success"
    /\ pc' = "done"
    /\ UNCHANGED <<total_raids, extraction_rate_percent, total_earned_millions,
                   p, total_earned, wins, avg_win, L_BE, abs_L_BE, rr_be, eq, calls,
                   frame, draws, args, returned, rng, seed>>

\* the next interaction reruns the script from the top; only the process-wide
\* generator keeps its state
Rerun ==
    /\ pc \in {"done", "stop"}
    /\ pc' = "idle"
    /\ message' = "info"
    /\ total_raids' = None /\ extraction_rate_percent' = None
    /\ total_earned_millions' = None
    /\ p' = None /\ total_earned' = None /\ wins' = None /\ avg_win' = None
    /\ L_BE' = None /\ abs_L_BE' = None /\ rr_be' = None
    /\ eq' = <<>> /\ calls' = <<>> /\ frame' = NoFrame /\ draws' = <<>>
    /\ UNCHANGED <<args, returned, rng, seed>>

NoArgs == [win_rate |-> None, avg_win |-> None, avg_loss |-> None, num_raids |-> 0]

Init ==
    /\ pc = "idle"
    /\ Blank
    /\ args = NoArgs
    /\ returned = <<>>
    /\ rng \in Seeds
    /\ seed = <<>>

Next == RunButton \/ CalcBreakEven \/ CallSim \/ SimStep \/ SimReturn \/ Done \/ Rerun

Spec == Init /\ [][Next]_vars

-----------------------------------------------------------------------------
(* The core called directly, as a test of its two functions calls it *)

TestWinRates  == {Zero, <<1, 4>>, <<1, 2>>, <<3, 4>>, One}
TestAvgWins   == {<<100, 1>>, <<1, 3>>}
TestAvgLosses == {<<-150, 1>>, <<-1, 2>>, <<100, 1>>}

TestArgs == [win_rate : TestWinRates, avg_win : TestAvgWins,
             avg_loss : TestAvgLosses, num_raids : 1..MaxRaids]

\* break_even_loss(win_rate, avg_win), called once
TestBreakEven ==
    /\ pc = "test"
    /\ returned = <<>>
    /\ returned' = <<break_even_loss(args.win_rate, args.avg_win)>>
    /\ calls' = Append(calls, Call("break_even_loss", args.win_rate, args.avg_win,
                                   None, 0))
    /\ pc' = "tested"
    /\ UNCHANGED <<appVars, frame, draws, args, rng, seed>>

\* np.random.seed(seed); monte_carlo_sim(win_rate, avg_win, avg_loss, num_raids),
\* run twice on the same arguments and seed
TestSim ==
    /\ pc = "test"
    /\ Len(returned) < 2
    /\ rng' = seed
    /\ frame' = NewFrame(args.win_rate, args.avg_win, args.avg_loss,
                         args.num_raids, "test")
    /\ calls' = Append(calls, Call("monte_carlo_sim", args.win_rate, args.avg_win,
                                   args.avg_loss, args.num_raids))
    /\ draws' = <<>>
    /\ pc' = "sim"
    /\ UNCHANGED <<appVars, args, returned, seed>>

InitCore ==
    /\ pc = "test"
    /\ Blank
    /\ args \in TestArgs
    /\ returned = <<>>
    /\ rng \in Seeds
    /\ seed \in Seeds

NextCore == TestBreakEven \/ TestSim \/ SimStep \/ SimReturn

SpecCore == InitCore /\ [][NextCore]_vars

-----------------------------------------------------------------------------
(* Properties *)

\* expected profit per raid: win_rate * avg_win + (1 - win_rate) * avg_loss
Expectancy(win_rate, avgwin, avgloss) ==
    RatAdd(RatMul(win_rate, avgwin), RatMul(RatSub(One, win_rate), avgloss))

\* the contract domain of break_even_loss: 0 < win_rate < 1 and avg_win > 0
ValidArgs ==
    /\ RatLt(Zero, args.win_rate) /\ RatLt(args.win_rate, One)
    /\ RatLt(Zero, args.avg_win)

\* C1: for 0 < winRate < 1 and avgWin > 0 the value L that break_even_loss
\* returns makes the expectancy zero: winRate * avgWin + (1 - winRate) * L = 0.
C1_ZeroExpectancy ==
    (pc = "tested" /\ ValidArgs) =>
        /\ IsNumber(returned[1])
        /\ Expectancy(args.win_rate, args.avg_win, returned[1]) = Zero

C1_Witness ==
    /\ pc = "tested" /\ ValidArgs
    /\ args.win_rate = <<3, 4>> /\ args.avg_win = <<100, 1>>
    /\ returned = << <<-300, 1>> >>

\* C2: for 0 < winRate < 1 and avgWin > 0, break_even_loss returns a value <= 0.
C2_NonPositive ==
    (pc = "tested" /\ ValidArgs) =>
        IsNumber(returned[1]) /\ RatLe(returned[1], Zero)

C2_Witness ==
    /\ pc = "tested" /\ ValidArgs
    /\ args.win_rate = <<1, 4>> /\ args.avg_win = <<1, 3>>
    /\ returned = << <<-1, 9>> >>

\* C3: whenever the script has computed rr_be = avg_win / abs(L_BE), it equals
\* (1 - p) / p, whatever avg_win is.
C3_BreakEvenRR ==
    (pc \in {"simulate", "sim", "plot", "done"}) =>
        /\ rr_be = RatDiv(avg_win, RatAbs(break_even_loss(p, avg_win)))
        /\ rr_be = RatDiv(RatSub(One, p), p)

C3_Witness ==
    /\ pc = "simulate"
    /\ p = <<1, 1000>> /\ avg_win = <<5000, 1>> /\ rr_be = <<999, 1>>

\* C4: after k iterations the list of monte_carlo_sim has length k + 1 and its
\* first element is 0; the returned list has length num_raids + 1.
C4_LengthAndStart ==
    /\ (pc = "sim") =>
          /\ Len(frame.equity) = frame.i + 1
          /\ frame.equity[1] = Zero
          /\ frame.i <= frame.num_raids
    /\ (pc = "test") =>
          \A k \in 1..Len(returned) :
              /\ Len(returned[k]) = args.num_raids + 1
              /\ returned[k][1] = Zero

C4_Witness ==
    /\ pc = "test" /\ Len(returned) >= 1
    /\ args.num_raids > 1
    /\ Len(returned[1]) = args.num_raids + 1

\* the increment the comparison of draw i selects
Increment(f, draw) == IF RatLt(draw, f.win_rate) THEN f.avg_win ELSE f.avg_loss

C5_Steps ==
    (pc = "sim") =>
        /\ Len(draws) = frame.i
        /\ \A i \in 1..Len(draws) :
              /\ RatSub(frame.equity[i + 1], frame.equity[i]) = Increment(frame, draws[i])
              /\ frame.equity[i + 1] = RatAdd(frame.equity[i], Increment(frame, draws[i]))

C5_Prefix ==
    (pc = "sim" /\ pc' = "sim") =>
        SubSeq(frame'.equity, 1, Len(frame.equity)) = frame.equity

C6_Reproducible ==
    (pc = "test" /\ Len(returned) = 2) => returned[1] = returned[2]

C6_Witness ==
    /\ pc = "test" /\ Len(returned) = 2
    /\ args.num_raids = 3
    /\ seed[1] # seed[2]
    /\ returned[2][2] # returned[2][3]

\* C7 (supporting fact): the widgets' bounds keep wins > 0, so the st.error
\* branch of the script is never taken.
ErrorBranchNeverTaken ==
    /\ message # "error"
    /\ (wins # None) => RatLt(Zero, wins)

\* C8: a run that reaches st.success has called break_even_loss once and then
\* monte_carlo_sim three times with (p, avg_win), 1000 raids and the losses
\* -1.5, -1.0 and -0.5 times abs(L_BE), in that order, and holds three paths of
\* length 1001; no simulation starts before break_even_loss has returned.
C8_CallSequence ==
    LET expected == << Call("break_even_loss", p, avg_win, None, 0),
                       Call("monte_carlo_sim", p, avg_win,
                            RatMul(<<-3, 2>>, abs_L_BE), 1000),
                       Call("monte_carlo_sim", p, avg_win,
                            RatMul(<<-1, 1>>, abs_L_BE), 1000),
                       Call("monte_carlo_sim", p, avg_win,
                            RatMul(<<-1, 2>>, abs_L_BE), 1000) >>
    IN  /\ Len(calls) <= 4
        /\ \A k \in 1..Len(calls) : calls[k] = expected[k]
        /\ (Len(calls) > 1) => (IsNumber(L_BE) /\ abs_L_BE = RatAbs(L_BE))
        /\ (pc \in {"simulate", "sim", "plot", "done"}) =>
              Len(calls) = Len(eq) + (IF pc = "sim" THEN 2 ELSE 1)
        /\ (pc = "done") =>
              /\ calls = expected
              /\ Len(eq) = 3
              /\ \A k \in 1..3 : Len(eq[k]) = 1001

C8_Witness ==
    /\ pc = "done" /\ message = "success"
    /\ Len(calls) = 4 /\ Len(eq) = 3
    /\ Len(eq[3]) = 1001

\* losing loadout values to compare with the break-even value
LoadoutSamples(abs) ==
    {RatMul(abs, f) : f \in {<<1, 4>>, <<1, 2>>, <<99, 100>>, One, <<101, 100>>,
                             <<3, 2>>, <<2, 1>>}}
        \cup {<<1, 1>>, <<10000, 1>>}

Sign(x) == IF x[1] < 0 THEN -1 ELSE IF x[1] > 0 THEN 1 ELSE 0

\* C9: with avg_loss = -m, the expectancy is negative for m > abs(L_BE), zero
\* for m = abs(L_BE) and positive for m < abs(L_BE); the three simulated
\* scenarios have negative, zero and positive expectancy, in that order.
C9_ExpectancySign ==
    /\ (pc \in {"simulate", "sim", "plot", "done"}) =>
          \A m \in LoadoutSamples(abs_L_BE) :
              Sign(Expectancy(p, avg_win, RatNeg(m))) = Sign(RatSub(abs_L_BE, m))
    /\ \A k \in 2..Len(calls) :
          Sign(Expectancy(calls[k].win_rate, calls[k].avg_win, calls[k].avg_loss))
              = k - 3

C9_Witness ==
    /\ pc = "sim" /\ Len(calls) = 4
    /\ p = <<1, 2>>
    /\ frame.avg_loss = RatNeg(RatMul(abs_L_BE, <<1, 2>>))
    /\ Sign(Expectancy(p, avg_win, frame.avg_loss)) = 1

\* C10 as stated: a click can pass the wins > 0 check with p = 1 and reach
\* break_even_loss.
C10_Original ==
    (pc = "idle") => ENABLED (pc' = "break_even" /\ p' = One /\ RunButton)

\* C10 as amended: the only check before the call is wins > 0, and the bounds
\* of the Extraction Rate widget keep p within [0.001, 0.999] at the call, so
\* break_even_loss never divides by zero.
C10_WinRateBelowOne ==
    /\ (pc = "break_even") =>
          /\ RatLt(Zero, wins)
          /\ RatLe(<<1, 1000>>, p) /\ RatLe(p, <<999, 1000>>)
    /\ L_BE # ZeroDivisionError
    /\ message # "exception"

C10_Witness ==
    /\ pc = "break_even"
    /\ extraction_rate_percent = ExtractionRateMax
    /\ p = <<999, 1000>>

====
